---- MODULE Spec2Model ----
(***************************************************************************)
(* A model of parts of the Arm NN sources:                                 *)
(*   - GpuFsaBackend::OptimizeSubgraphView (the walk over a SubgraphView   *)
(*     that emits substitutions and reports untouched layers),             *)
(*   - ClImportTensorHandle::Import (memory import guarded by the handle's *)
(*     import flags) and the typed copies of the import handles,           *)
(*   - the lifetime of ClImportSubTensorHandle and its parent,             *)
(*   - GpuFsaBackend's registration of tensor handle factories,            *)
(*   - CreateInputsFrom / CreateOutputsFrom / CreateSubgraphViewFrom,      *)
(*   - ActivateTimelineReportingCommandHandler.                            *)
(* The walk is modelled one loop iteration per step so that the state of   *)
(* the untouched accumulator between iterations is visible.                *)
(***************************************************************************)
EXTENDS Integers, Sequences, FiniteSets, TLC

(* ---------------------------------------------------------------------- *)
(* Bounds of the model                                                     *)
(* ---------------------------------------------------------------------- *)

\* largest number of layers in the SubgraphView handed to the backend
MaxLayers == 2

VARIABLES
    layerOf,             \* the graph's layers of the view: guid -> layer record
    conn,                \* the graph's connectivity: input slot -> output slot
    graphLayers,         \* guids of the layers the graph owns
    subgraph,            \* the SubgraphView passed to OptimizeSubgraphView
    pc,                  \* position inside OptimizeSubgraphView
    it,                  \* the iterator `it` (number of elements before it)
    untouched,           \* std::map<LayerGuid, Layer*> untouched (its keys)
    preCompiled,         \* layers added to optimizationViews.GetINetwork()
    substitutions,       \* optimizationViews.GetSubstitutions()
    untouchedSubgraphs,  \* optimizationViews.GetUntouchedSubgraphs()
    failedSubgraphs,     \* optimizationViews.GetFailedSubgraphs()
    applied,             \* number of substitutions applied to the graph
    fatal,               \* a slot-count mismatch was hit while applying
    m_ImportFlags,       \* ClImportTensorHandle::m_ImportFlags
    m_Tensor,            \* ClImportTensorHandle::m_Tensor (its imported buffer)
    importResult,        \* how the last call of Import ended
    importCall,          \* arguments and handle state of the last call of Import
    copyHandle,          \* the handle of a typed copy: its class and element type
    tensorBytes,         \* the bytes of that handle's tensor
    memoryIn,            \* the host buffer given to CopyInFrom
    memoryOut,           \* the host buffer given to CopyOutTo
    copyOp,              \* the copy functions called so far, in order
    copyResult,          \* how the last copy function ended
    handles,             \* the tensor handles created: state and parentHandle
    registry,            \* TensorHandleFactoryRegistry: the factories registered
    flagsCall,           \* flags given to and held by the last registering call
    givenLayers,         \* the layers given to CreateInputsFrom/CreateOutputsFrom
    builtView,           \* the view CreateSubgraphViewFrom made of them
    currentState,        \* m_StateMachine.GetCurrentState()
    m_ReportStructure,   \* m_ReportStructure.has_value()
    m_TimelineReporting, \* the timeline-reporting flag
    timelineLog,         \* what the handler sent, set, reported and notified
    handlerResult,       \* how the last call of the handler ended
    handlerCall          \* packet and flag of the last call of the handler

optVars == <<layerOf, conn, graphLayers, subgraph, pc, it, untouched, preCompiled,
             substitutions, untouchedSubgraphs, failedSubgraphs, applied, fatal>>

handleVars == <<m_ImportFlags, m_Tensor, importResult, importCall>>

copyVars == <<copyHandle, tensorBytes, memoryIn, memoryOut, copyOp, copyResult>>

lifeVars == <<handles>>

factoryVars == <<registry, flagsCall>>

slotVars == <<givenLayers, builtView>>

timelineVars == <<currentState, m_ReportStructure, m_TimelineReporting, timelineLog,
                  handlerResult, handlerCall>>

vars == <<optVars, handleVars, copyVars, lifeVars, factoryVars, slotVars, timelineVars>>

\* what the steps of OptimizeSubgraphView and of the graph leave alone
nonOptVars == <<handleVars, copyVars, lifeVars, factoryVars, slotVars, timelineVars>>

\* what the operations of a tensor handle leave alone
nonHandleVars == <<optVars, copyVars, lifeVars, factoryVars, slotVars, timelineVars>>

\* what the typed copies leave alone
nonCopyVars == <<optVars, handleVars, lifeVars, factoryVars, slotVars, timelineVars>>

\* what creating and destroying handles leaves alone
nonLifeVars == <<optVars, handleVars, copyVars, factoryVars, slotVars, timelineVars>>

\* what registering factories leaves alone
nonFactoryVars == <<optVars, handleVars, copyVars, lifeVars, slotVars, timelineVars>>

\* what the view helpers leave alone (the graph they read is in optVars)
nonSlotVars == <<pc, it, untouched, preCompiled, substitutions, untouchedSubgraphs,
                 failedSubgraphs, applied, fatal, subgraph, layerOf, conn, graphLayers,
                 handleVars, copyVars, lifeVars, factoryVars, timelineVars>>

\* what the timeline command handler leaves alone
nonTimelineVars == <<optVars, handleVars, copyVars, lifeVars, factoryVars, slotVars>>

(* ---------------------------------------------------------------------- *)
(* Layers, slots and views                                                 *)
(* ---------------------------------------------------------------------- *)

\* The layer kinds the walk distinguishes: the one case label and `default`.
LayerType == {"Convolution2d", "Activation"}

\* Classification of a layer's parameters by the backend's kernel path:
\* accepted, not supported (e.g. biased convolution on a backend without it),
\* or structurally supported but invalid for the compiled path.
ParamClass == {"ok", "unsupported", "invalid"}

\* TensorInfo of a slot: Unset is a default-constructed TensorInfo, TensorInfos
\* are the resolved ones (shape, element type and quantization taken as a whole).
Unset == "unset"
TensorInfos == {"infoA", "infoB"}

\* guid of the layers outside the view that produce its external inputs
ExternalGuid == 0

\* guid of the layer outside the view that consumes the view's outputs
OutputGuid == MaxLayers + 1

\* guid given to the k-th layer added to the optimization views' network
PreCompiledGuid(k) == OutputGuid + k

\* A Convolution2d reads input slots 0 and 1, and slot 2 when bias is enabled.
NumInputSlots(l) ==
    IF l.type = "Convolution2d" THEN (IF l.biasEnabled THEN 3 ELSE 2) ELSE 1

NumOutputSlots(l) == 1

\* the layer's input slots in slot order
CreateInputsFrom(g, l) == [i \in 1..NumInputSlots(l) |-> <<g, i - 1>>]

\* the layer's output slots in slot order
CreateOutputsFrom(g, l) == [i \in 1..NumOutputSlots(l) |-> <<g, i - 1>>]

CreateSubgraphViewFrom(inputs, outputs, layers) ==
    [inputSlots |-> inputs, outputSlots |-> outputs, layers |-> layers]

\* The records a layer of the view may be.  `producer` is the guid of the
\* layer feeding input slot 0 (ExternalGuid: a layer outside the view); the
\* remaining input slots (weights, bias) are fed from outside the view.
LayerRecs ==
    { l \in [type : LayerType, biasEnabled : BOOLEAN, params : ParamClass,
             info : TensorInfos, producer : 0..MaxLayers] :
        l.type = "Activation" => (~l.biasEnabled /\ l.params = "ok") }

\* the elements of a set of guids in ascending order (std::map iteration order)
RECURSIVE Ascending(_)
Ascending(S) ==
    IF S = {} THEN <<>>
    ELSE LET m == CHOOSE x \in S : \A y \in S : x <= y
         IN  <<m>> \o Ascending(S \ {m})

\* connectivity of a fully connected graph holding the layers L (guids 1..n)
\* whose outputs listed in `outs` are consumed by the layer OutputGuid
InitialConn(L, outs) ==
    LET n == Len(L)
        members == { <<g, i>> : g \in 1..n, i \in 0..2 }
        own == { s \in members : s[2] < NumInputSlots(L[s[1]]) }
        sink == { <<OutputGuid, k - 1>> : k \in 1..Len(outs) }
    IN  [ s \in own \cup sink |->
            IF s[1] = OutputGuid THEN <<outs[s[2] + 1], 0>>
            ELSE IF s[2] = 0 /\ L[s[1]].producer # ExternalGuid
                 THEN <<L[s[1]].producer, 0>>
                 ELSE <<ExternalGuid, s[2]>> ]

\* the input slots of the layers g..n that are fed from outside the view,
\* in layer order and within a layer in slot order
RECURSIVE BoundaryInputs(_, _, _)
BoundaryInputs(L, c, g) ==
    IF g > Len(L) THEN <<>>
    ELSE SelectSeq(CreateInputsFrom(g, L[g]), LAMBDA s : c[s][1] = ExternalGuid)
         \o BoundaryInputs(L, c, g + 1)

\* the view over the layers L with the boundary output slots `outs`
BuildSubgraphView(L, outs) ==
    CreateSubgraphViewFrom(BoundaryInputs(L, InitialConn(L, outs), 1),
                           [k \in 1..Len(outs) |-> <<outs[k], 0>>],
                           [g \in 1..Len(L) |-> g])

\* no tensor handle has been constructed
NoCall == [memory |-> 0, source |-> 0, flags |-> 0, tensor |-> [buffer |-> 0]]

HandleAbsent ==
    /\ m_ImportFlags = 0
    /\ m_Tensor = [buffer |-> 0]
    /\ importResult = "none"
    /\ importCall = NoCall

\* State when OptimizeSubgraphView is entered: a fully connected graph with
\* resolved TensorInfo on every output slot, a view over its layers in
\* topological order, an empty OptimizationViews and `it = subgraph.end()`.
OptimizeEntered ==
    \E n \in 0..MaxLayers :
      \E L \in [1..n -> LayerRecs] :
        \E outSet \in SUBSET (1..n) :
          /\ \A g \in 1..n : L[g].producer \in {ExternalGuid, g - 1}
          /\ layerOf = L
          /\ conn = InitialConn(L, Ascending(outSet))
          /\ graphLayers = (1..n) \cup {ExternalGuid, OutputGuid}
          /\ subgraph = BuildSubgraphView(L, Ascending(outSet))
          /\ pc = "insert"
          /\ it = n
          /\ untouched = {}
          /\ preCompiled = <<>>
          /\ substitutions = <<>>
          /\ untouchedSubgraphs = <<>>
          /\ failedSubgraphs = <<>>
          /\ applied = 0
          /\ fatal = FALSE

\* no typed copy is under way
CopyIdle ==
    /\ copyHandle = [class |-> "none", dataType |-> "none"]
    /\ tensorBytes = <<>>
    /\ memoryIn = <<>>
    /\ memoryOut = <<>>
    /\ copyOp = <<>>
    /\ copyResult = "none"

\* no handle has been created
LifeIdle == handles = <<>>

\* no backend has registered a factory
FactoryIdle ==
    /\ registry = <<>>
    /\ flagsCall = [fn |-> "none", inputFlags |-> 0, outputFlags |-> 0,
                    heldInput |-> 0, heldOutput |-> 0]

\* no view is being built by the helpers
SlotsIdle ==
    /\ givenLayers = <<>>
    /\ builtView = [built |-> FALSE]

\* the command handler has not been invoked: no packet, and the state, flag
\* and log it would have found
NoHandlerCall ==
    [calls |-> 0, family |-> 0, id |-> 0, state |-> "Uninitialised",
     reporting |-> FALSE, log |-> <<>>]

\* no profiling service exists
TimelineIdle ==
    /\ currentState = "Uninitialised"
    /\ m_ReportStructure = FALSE
    /\ m_TimelineReporting = FALSE
    /\ timelineLog = <<>>
    /\ handlerResult = "none"
    /\ handlerCall = NoHandlerCall

Init ==
    /\ OptimizeEntered
    /\ HandleAbsent
    /\ CopyIdle /\ LifeIdle /\ FactoryIdle /\ SlotsIdle /\ TimelineIdle

\* no graph is being optimized
OptimizeIdle ==
    /\ layerOf = <<>>
    /\ conn = <<>>
    /\ graphLayers = {}
    /\ subgraph = CreateSubgraphViewFrom(<<>>, <<>>, <<>>)
    /\ pc = "idle"
    /\ it = 0
    /\ untouched = {}
    /\ preCompiled = <<>>
    /\ substitutions = <<>>
    /\ untouchedSubgraphs = <<>>
    /\ failedSubgraphs = <<>>
    /\ applied = 0
    /\ fatal = FALSE

(* ---------------------------------------------------------------------- *)
(* GpuFsaBackend::OptimizeSubgraphView                                     *)
(* ---------------------------------------------------------------------- *)

\* `--it; Layer& base = *it;` : the guid of the layer the iterator reaches
Base == subgraph.layers[it]

\* First loop: every layer of the view is inserted into `untouched`.
InsertUntouched ==
    /\ pc = "insert"
    /\ it > 0
    /\ untouched' = untouched \cup {Base}
    /\ it' = it - 1
    /\ UNCHANGED <<layerOf, conn, graphLayers, subgraph, pc, preCompiled,
                   substitutions, untouchedSubgraphs, failedSubgraphs, applied, fatal>>
    /\ UNCHANGED nonOptVars

\* The first loop ends; `it = subgraph.end()` again.
StartWalk ==
    /\ pc = "insert"
    /\ it = 0
    /\ pc' = "walk"
    /\ it' = Len(subgraph.layers)
    /\ UNCHANGED <<layerOf, conn, graphLayers, subgraph, untouched, preCompiled,
                   substitutions, untouchedSubgraphs, failedSubgraphs, applied, fatal>>
    /\ UNCHANGED nonOptVars

\* IsHandled with the case taken only for a convolution without bias
IsHandledWithoutBias(l) == l.type = "Convolution2d" /\ ~l.biasEnabled

\* The switch on base.GetType(): Convolution2d is the only case label, every
\* other type takes `default: continue`.  The GpuFsaLayerSupport object
\* `supportChecker` is constructed before the loop and never consulted.
IsHandled(l) == l.type = "Convolution2d"

\* What the backend's support check would answer for the layer.
IsLayerSupported(l) == l.type = "Convolution2d" /\ l.params = "ok"

\* The call GpuFsaConvolution2dCreateOp(input, *desc, weights, bias): nothing
\* it returns is read and no exception is caught, so all the walk can see of
\* it is whether it returns or throws.  Parameters the kernel path accepts
\* make it return; for rejected parameters both outcomes are allowed.
GpuFsaConvolution2dCreateOp(l) ==
    IF l.params = "ok" THEN {"returned"} ELSE {"returned", "threw"}

\* PreCompiledDescriptor with its two arguments exchanged
PreCompiledDescriptorSwapped(l) ==
    [numInputSlots |-> NumOutputSlots(l), numOutputSlots |-> NumInputSlots(l)]

\* PreCompiledDescriptor(base.GetNumInputSlots(), base.GetNumOutputSlots())
PreCompiledDescriptor(l) ==
    [numInputSlots |-> NumInputSlots(l), numOutputSlots |-> NumOutputSlots(l)]

\* the slot indices i of `for (i = 0; i < subgraph.GetNumOutputSlots(); i++)`
CopyIndices(sg) == 0..(Len(sg.outputSlots) - 1)

\* GetOutputSlot(i) of the pre-compiled layer and of base is in range for
\* every index of the copy loop
CopyInRange(l, desc, sg) ==
    \A i \in CopyIndices(sg) : i < desc.numOutputSlots /\ i < NumOutputSlots(l)

\* TensorInfo of the pre-compiled layer's output slots after the copy loop:
\* slot i carries base.GetOutputSlot(i).GetTensorInfo() when the loop reached
\* i, and stays default-constructed otherwise
CopyTensorInfos(l, desc, sg) ==
    [j \in 1..desc.numOutputSlots |->
        IF (j - 1) \in CopyIndices(sg) THEN l.info ELSE Unset]

\* AddPrecompiledLayer(...) followed by the copy loop: the k-th layer of the
\* optimization views' network
PreCompiledLayer(k, l, sg) ==
    LET desc == PreCompiledDescriptor(l)
    IN  [guid |-> PreCompiledGuid(k),
         numInputSlots |-> desc.numInputSlots,
         numOutputSlots |-> desc.numOutputSlots,
         outInfo |-> CopyTensorInfos(l, desc, sg)]

\* CreateSubgraphViewFrom(CreateInputsFrom(&base), CreateOutputsFrom(&base), {&base})
SubstitutableSubgraph(g, l) ==
    CreateSubgraphViewFrom(CreateInputsFrom(g, l), CreateOutputsFrom(g, l), <<g>>)

\* SubgraphView(preCompiledLayer): the view of one layer with all its slots
ReplacementSubgraph(p) ==
    CreateSubgraphViewFrom([i \in 1..p.numInputSlots |-> <<p.guid, i - 1>>],
                           [i \in 1..p.numOutputSlots |-> <<p.guid, i - 1>>],
                           <<p.guid>>)

\* EraseUntouched with the erase left out
EraseUntouchedSkipped(u, g) == u

\* EraseUntouched erasing from the key to the end of the map
EraseUntouchedToEnd(u, g) == { x \in u : x < g }

\* the map after `untouched.erase(base.GetGuid())`
EraseUntouched(u, g) == u \ {g}

\* `default: continue;` : the layer is skipped and stays in `untouched`.
VisitDefault ==
    /\ pc = "walk"
    /\ it > 0
    /\ ~IsHandled(layerOf[Base])
    /\ it' = it - 1
    /\ UNCHANGED <<layerOf, conn, graphLayers, subgraph, pc, untouched, preCompiled,
                   substitutions, untouchedSubgraphs, failedSubgraphs, applied, fatal>>
    /\ UNCHANGED nonOptVars

\* case Convolution2d, when the create call returns and every slot index of
\* the copy loop is in range: a pre-compiled layer is added, the substitution
\* is recorded and the layer is erased from `untouched`.
VisitConvolution2d ==
    /\ pc = "walk"
    /\ it > 0
    /\ IsHandled(layerOf[Base])
    /\ "returned" \in GpuFsaConvolution2dCreateOp(layerOf[Base])
    /\ CopyInRange(layerOf[Base], PreCompiledDescriptor(layerOf[Base]), subgraph)
    /\ LET p == PreCompiledLayer(Len(preCompiled) + 1, layerOf[Base], subgraph)
       IN  /\ preCompiled' = Append(preCompiled, p)
           /\ substitutions' =
                Append(substitutions,
                       [substitutableSubgraph |-> SubstitutableSubgraph(Base, layerOf[Base]),
                        replacementSubgraph |-> ReplacementSubgraph(p)])
    /\ untouched' = EraseUntouched(untouched, Base)
    /\ it' = it - 1
    /\ UNCHANGED <<layerOf, conn, graphLayers, subgraph, pc,
                   untouchedSubgraphs, failedSubgraphs, applied, fatal>>
    /\ UNCHANGED nonOptVars

\* case Convolution2d, when the create call throws: nothing catches it, the
\* call ends without a result.
VisitCreateOpThrows ==
    /\ pc = "walk"
    /\ it > 0
    /\ IsHandled(layerOf[Base])
    /\ "threw" \in GpuFsaConvolution2dCreateOp(layerOf[Base])
    /\ pc' = "threw"
    /\ UNCHANGED <<layerOf, conn, graphLayers, subgraph, it, untouched, preCompiled,
                   substitutions, untouchedSubgraphs, failedSubgraphs, applied, fatal>>
    /\ UNCHANGED nonOptVars

\* case Convolution2d, when the copy loop asks for an output slot past the
\* last one: GetOutputSlot throws, the call ends without a result.
VisitOutOfRange ==
    /\ pc = "walk"
    /\ it > 0
    /\ IsHandled(layerOf[Base])
    /\ "returned" \in GpuFsaConvolution2dCreateOp(layerOf[Base])
    /\ ~CopyInRange(layerOf[Base], PreCompiledDescriptor(layerOf[Base]), subgraph)
    /\ pc' = "threw"
    /\ UNCHANGED <<layerOf, conn, graphLayers, subgraph, it, untouched, preCompiled,
                   substitutions, untouchedSubgraphs, failedSubgraphs, applied, fatal>>
    /\ UNCHANGED nonOptVars

\* ReportUntouchedLayers(optimizationViews, untouched): one untouched
\* subgraph per remaining layer, in guid order
RECURSIVE UntouchedViews(_, _)
UntouchedViews(L, guids) ==
    IF guids = <<>> THEN <<>>
    ELSE <<SubstitutableSubgraph(Head(guids), L[Head(guids)])>>
         \o UntouchedViews(L, Tail(guids))

ReportUntouchedLayers(L, u) == UntouchedViews(L, Ascending(u))

\* ReportedUntouched without the test for an empty substitution list
ReportedUntouchedPerLayer(subs, sg, L, u) == ReportUntouchedLayers(L, u)

\* the untouched subgraphs added after the walk
\*   if (GetSubstitutions().empty()) AddUntouchedSubgraph(SubgraphView(subgraph));
\*   else ReportUntouchedLayers(optimizationViews, untouched);
ReportedUntouched(subs, sg, L, u) ==
    IF subs = <<>> THEN <<sg>> ELSE ReportUntouchedLayers(L, u)

\* After the walk the untouched part is reported and the views are returned.
Report ==
    /\ pc = "walk"
    /\ it = 0
    /\ untouchedSubgraphs' =
         untouchedSubgraphs \o ReportedUntouched(substitutions, subgraph, layerOf, untouched)
    /\ pc' = "done"
    /\ UNCHANGED <<layerOf, conn, graphLayers, subgraph, it, untouched, preCompiled,
                   substitutions, failedSubgraphs, applied, fatal>>
    /\ UNCHANGED nonOptVars

(* ---------------------------------------------------------------------- *)
(* Applying the returned substitutions to the graph                        *)
(* ---------------------------------------------------------------------- *)

\* the elements of a sequence
Range(q) == { q[i] : i \in 1..Len(q) }

\* position of a slot in a boundary slot list
IndexOf(q, s) == CHOOSE i \in 1..Len(q) : q[i] = s

\* boundary slot counts of the two sides agree
SlotCountsMatch(sub) ==
    /\ Len(sub.substitutableSubgraph.inputSlots) = Len(sub.replacementSubgraph.inputSlots)
    /\ Len(sub.substitutableSubgraph.outputSlots) = Len(sub.replacementSubgraph.outputSlots)

\* connectivity after the i-th boundary input of the original is moved to the
\* i-th boundary input of the replacement and every consumer of the j-th
\* boundary output of the original is reconnected to the j-th boundary output
\* of the replacement
Reconnect(c, sub) ==
    LET o == sub.substitutableSubgraph
        r == sub.replacementSubgraph
        kept == (DOMAIN c) \ Range(o.inputSlots)
        moved == { r.inputSlots[i] : i \in { j \in 1..Len(o.inputSlots) :
                                              o.inputSlots[j] \in DOMAIN c } }
        target(out) == IF out \in Range(o.outputSlots)
                       THEN r.outputSlots[IndexOf(o.outputSlots, out)]
                       ELSE out
    IN  [ s \in kept \cup moved |->
            IF s \in moved THEN target(c[o.inputSlots[IndexOf(r.inputSlots, s)]])
            ELSE target(c[s]) ]

\* The next substitution of the result is applied to the graph: the original
\* layers leave the graph, the replacement layers enter it, and boundary slots
\* are reconnected by position.  A slot-count mismatch is fatal.
ApplySubstitution ==
    /\ pc = "done"
    /\ ~fatal
    /\ applied < Len(substitutions)
    /\ LET sub == substitutions[applied + 1]
       IN  IF SlotCountsMatch(sub)
           THEN /\ conn' = Reconnect(conn, sub)
                /\ graphLayers' = (graphLayers \ Range(sub.substitutableSubgraph.layers))
                                    \cup Range(sub.replacementSubgraph.layers)
                /\ applied' = applied + 1
                /\ fatal' = FALSE
           ELSE /\ fatal' = TRUE
                /\ UNCHANGED <<conn, graphLayers, applied>>
    /\ UNCHANGED <<layerOf, subgraph, pc, it, untouched, preCompiled,
                   substitutions, untouchedSubgraphs, failedSubgraphs>>
    /\ UNCHANGED nonOptVars

OptimizeSubgraphView ==
    \/ InsertUntouched
    \/ StartWalk
    \/ VisitDefault
    \/ VisitConvolution2d
    \/ VisitCreateOpThrows
    \/ VisitOutOfRange
    \/ Report

Next ==
    \/ OptimizeSubgraphView
    \/ ApplySubstitution

Spec == Init /\ [][Next]_vars

(* ---------------------------------------------------------------------- *)
(* ClImportTensorHandle                                                    *)
(* ---------------------------------------------------------------------- *)

\* number of external memory blocks a caller may offer for import
MaxMemory == 2

\* enum class MemorySource, the bits of MemorySourceFlags
MemorySource ==
    [Undefined |-> 0, Malloc |-> 1, DmaBuf |-> 2, DmaBufProtected |-> 4, Gralloc |-> 8]

MemorySources == { MemorySource[n] : n \in DOMAIN MemorySource }

\* every value of the MemorySourceFlags bitmask over the sources
MemorySourceFlags == 0..15

\* a & b on unsigned integers
RECURSIVE BitAnd(_, _)
BitAnd(a, b) ==
    IF a = 0 \/ b = 0 THEN 0
    ELSE (a % 2) * (b % 2) + 2 * BitAnd(a \div 2, b \div 2)

\* ImportFlagSet testing the flags alone
ImportFlagSetAnyFlag(flags, source) == flags # 0

\* if (m_ImportFlags & static_cast<MemorySourceFlags>(source))
ImportFlagSet(flags, source) == BitAnd(flags, source) # 0

\* IsImportableSource accepting every defined source
IsImportableSourceAnyDefined(source) == source # MemorySource.Undefined

\* if (source == MemorySource::Malloc)
IsImportableSource(source) == source = MemorySource.Malloc

\* the handle as the constructor leaves it: the given import flags, a tensor
\* without buffer
InitImport ==
    /\ OptimizeIdle
    /\ CopyIdle /\ LifeIdle /\ FactoryIdle /\ SlotsIdle /\ TimelineIdle
    /\ m_ImportFlags \in MemorySourceFlags
    /\ m_Tensor = [buffer |-> 0]
    /\ importResult = "none"
    /\ importCall = NoCall

\* what every call of Import records of its arguments and of the handle
Called(memory, source) ==
    importCall' = [memory |-> memory, source |-> source,
                   flags |-> m_ImportFlags, tensor |-> m_Tensor]

\* Import of a flagged Malloc source, clImportMemoryARM and import_memory
\* succeeding: the tensor's buffer wraps the caller's memory, the call
\* returns true.
ImportMalloc ==
    \E memory \in 1..MaxMemory, source \in MemorySources :
        /\ ImportFlagSet(m_ImportFlags, source)
        /\ IsImportableSource(source)
        /\ Called(memory, source)
        /\ m_Tensor' = [m_Tensor EXCEPT !.buffer = memory]
        /\ importResult' = "true"
        /\ UNCHANGED m_ImportFlags
        /\ UNCHANGED nonHandleVars

\* Import of a flagged Malloc source, clImportMemoryARM reporting an error or
\* import_memory a status other than OK: MemoryImportException.  Either may
\* happen for any memory; the tensor keeps the buffer it had.
ImportRejectedByCl ==
    \E memory \in 1..MaxMemory, source \in MemorySources :
        /\ ImportFlagSet(m_ImportFlags, source)
        /\ IsImportableSource(source)
        /\ Called(memory, source)
        /\ importResult' = "MemoryImportException"
        /\ UNCHANGED <<m_ImportFlags, m_Tensor>>
        /\ UNCHANGED nonHandleVars

\* Import of a flagged source other than Malloc:
\* MemoryImportException("Import flag is not supported").
ImportNotSupported ==
    \E memory \in 1..MaxMemory, source \in MemorySources :
        /\ ImportFlagSet(m_ImportFlags, source)
        /\ ~IsImportableSource(source)
        /\ Called(memory, source)
        /\ importResult' = "MemoryImportException"
        /\ UNCHANGED <<m_ImportFlags, m_Tensor>>
        /\ UNCHANGED nonHandleVars

\* Import of a source whose bit is not in the flags:
\* MemoryImportException("Incorrect import flag").
ImportIncorrectFlag ==
    \E memory \in 1..MaxMemory, source \in MemorySources :
        /\ ~ImportFlagSet(m_ImportFlags, source)
        /\ Called(memory, source)
        /\ importResult' = "MemoryImportException"
        /\ UNCHANGED <<m_ImportFlags, m_Tensor>>
        /\ UNCHANGED nonHandleVars

Import ==
    \/ ImportMalloc
    \/ ImportRejectedByCl
    \/ ImportNotSupported
    \/ ImportIncorrectFlag

\* void SetImportFlags(MemorySourceFlags importFlags)
SetImportFlags ==
    \E importFlags \in MemorySourceFlags :
        /\ m_ImportFlags' = importFlags
        /\ importResult' = "none"
        /\ importCall' = NoCall
        /\ UNCHANGED m_Tensor
        /\ UNCHANGED nonHandleVars

NextImport ==
    \/ Import
    \/ SetImportFlags

SpecImport == InitImport /\ [][NextImport]_vars

(* ---------------------------------------------------------------------- *)
(* Properties of ClImportTensorHandle::Import                              *)
(* ---------------------------------------------------------------------- *)

\* the last operation on the handle was a call of Import
ImportEnded == importResult # "none"

\* C3 - import flag enforcement: a call of Import whose source has no bit in
\* the handle's import flags ends with MemoryImportException and leaves the
\* tensor's imported buffer and the import flags as they were.
ImportFlagEnforced ==
    (ImportEnded /\ BitAnd(importCall.flags, importCall.source) = 0) =>
        /\ importResult = "MemoryImportException"
        /\ m_Tensor = importCall.tensor
        /\ m_ImportFlags = importCall.flags

\* Import of Malloc memory was refused by a handle that holds an imported
\* buffer and whose flags name other sources only
ImportFlagEnforcedWitness ==
    /\ ImportEnded
    /\ importCall.source = MemorySource.Malloc
    /\ BitAnd(importCall.flags, importCall.source) = 0
    /\ importCall.flags # 0
    /\ importCall.tensor.buffer # 0
    /\ importCall.tensor.buffer # importCall.memory

\* C4 - import succeeds only for a declared and supported source: a call of
\* Import that returns true had a source that is Malloc and is in the flags;
\* a flagged source other than Malloc ends with MemoryImportException; and a
\* call that fails leaves the tensor as it was, so nothing was copied into it.
ImportOnlyDeclaredMalloc ==
    ImportEnded =>
        /\ importResult = "true" =>
              /\ BitAnd(importCall.flags, importCall.source) # 0
              /\ importCall.source = MemorySource.Malloc
              /\ m_Tensor.buffer = importCall.memory
        /\ (BitAnd(importCall.flags, importCall.source) # 0
              /\ importCall.source # MemorySource.Malloc) =>
              importResult = "MemoryImportException"
        /\ importResult # "true" => m_Tensor = importCall.tensor

\* Import of a flagged source other than Malloc was refused
ImportOnlyDeclaredMallocWitness ==
    /\ ImportEnded
    /\ BitAnd(importCall.flags, importCall.source) # 0
    /\ importCall.source = MemorySource.Gralloc
    /\ importResult = "MemoryImportException"

(* ---------------------------------------------------------------------- *)
(* Properties of OptimizeSubgraphView                                      *)
(* ---------------------------------------------------------------------- *)

\* the layers of a sequence of views, view after view
RECURSIVE LayersOfViews(_)
LayersOfViews(views) ==
    IF views = <<>> THEN <<>>
    ELSE Head(views).layers \o LayersOfViews(Tail(views))

SubstitutedLayers ==
    LayersOfViews([k \in 1..Len(substitutions) |-> substitutions[k].substitutableSubgraph])

UntouchedLayers == LayersOfViews(untouchedSubgraphs)

FailedLayers == LayersOfViews(failedSubgraphs)

NoDuplicates(q) == \A i, j \in 1..Len(q) : i # j => q[i] # q[j]

\* the call has returned its OptimizationViews
Returned == pc = "done"

\* C1 - partition completeness: in every returned result the layers of the
\* original sides of the substitutions, of the untouched subgraphs and of the
\* failed subgraphs are together exactly the layers of the input view, and
\* none of them is listed twice.
PartitionCompleteness ==
    Returned =>
        LET all == SubstitutedLayers \o UntouchedLayers \o FailedLayers
        IN  /\ Range(all) = Range(subgraph.layers)
            /\ NoDuplicates(all)

\* a returned result that holds a substitution and an untouched subgraph
PartitionCompletenessWitness ==
    /\ Returned
    /\ substitutions # <<>>
    /\ untouchedSubgraphs # <<>>

\* C2 - shape/type preservation: in every returned result every output slot
\* of every pre-compiled replacement layer carries the TensorInfo of the
\* output slot at the same index of the layer it replaces.
TensorInfoPreserved ==
    Returned =>
        \A k \in 1..Len(substitutions) :
            \A j \in 1..preCompiled[k].numOutputSlots :
                preCompiled[k].outInfo[j] =
                    layerOf[substitutions[k].substitutableSubgraph.layers[1]].info

\* C5 - no-op pass: a returned result without substitutions holds exactly one
\* untouched subgraph, equal to the input view in layers and boundary slots,
\* and no failed subgraph; the graph has the layers and the connectivity it
\* had when the call was entered.
NoOpPass ==
    (Returned /\ substitutions = <<>>) =>
        /\ untouchedSubgraphs = <<subgraph>>
        /\ failedSubgraphs = <<>>
        /\ graphLayers = Range(subgraph.layers) \cup {ExternalGuid, OutputGuid}
        /\ conn = InitialConn(layerOf,
                              [k \in 1..Len(subgraph.outputSlots) |-> subgraph.outputSlots[k][1]])

\* a returned result without substitutions for a view of several layers
NoOpPassWitness ==
    /\ Returned
    /\ substitutions = <<>>
    /\ Len(subgraph.layers) > 1

\* the substitution emitted by the step, if the step emitted one
EmittedFor(g) ==
    /\ Len(substitutions') = Len(substitutions) + 1
    /\ substitutions'[Len(substitutions')].substitutableSubgraph.layers = <<g>>

\* C6 - untouched accounting: when the walk starts the accumulator holds every
\* layer of the view; a layer leaves it only in the step that emits the
\* substitution consuming that layer; and a returned result with at least one
\* substitution lists every layer left in the accumulator in an untouched
\* subgraph.
UntouchedAccounting ==
    /\ []((pc = "walk" /\ it = Len(subgraph.layers) /\ substitutions = <<>>)
            => untouched = Range(subgraph.layers))
    /\ [][\A g \in untouched \ untouched' : EmittedFor(g)]_vars
    /\ []((Returned /\ substitutions # <<>>)
            => \A g \in untouched : g \in Range(UntouchedLayers))

\* a returned result with a substitution and a layer left in the accumulator
UntouchedAccountingWitness ==
    /\ Returned
    /\ substitutions # <<>>
    /\ untouched # {}
    /\ untouched # Range(subgraph.layers)

\* the view is one Convolution2d layer with bias enabled, its three input
\* slots connected
ScenarioAView ==
    /\ Len(subgraph.layers) = 1
    /\ layerOf[1].type = "Convolution2d"
    /\ layerOf[1].biasEnabled
    /\ \A i \in 0..2 : <<1, i>> \in DOMAIN InitialConn(layerOf, <<>>)

\* C7 - scenario A: for a view of one biased Convolution2d layer the returned
\* result holds exactly one substitution, from that layer to one pre-compiled
\* layer, and no untouched and no failed subgraph.
ScenarioA ==
    (Returned /\ ScenarioAView) =>
        /\ Len(substitutions) = 1
        /\ substitutions[1].substitutableSubgraph.layers = subgraph.layers
        /\ Len(substitutions[1].replacementSubgraph.layers) = 1
        /\ substitutions[1].replacementSubgraph.layers[1] = preCompiled[1].guid
        /\ untouchedSubgraphs = <<>>
        /\ failedSubgraphs = <<>>

\* the call returned for a view of one supported biased Convolution2d
ScenarioAWitness ==
    /\ Returned
    /\ ScenarioAView
    /\ layerOf[1].params = "ok"
    /\ Len(subgraph.outputSlots) = 1

\* C8 - unsupported layers are never substituted: while the call runs and in
\* its result, a layer the support check rejects is the original of no
\* substitution and is in the untouched accumulator.
UnsupportedNeverSubstituted ==
    (pc \in {"walk", "done"}) =>
        \A g \in Range(subgraph.layers) :
            ~IsLayerSupported(layerOf[g]) =>
                /\ g \notin Range(SubstitutedLayers)
                /\ g \in untouched

\* the walk has met layer g: the call returned, or it ended at g
Met(g) == Returned \/ (pc = "threw" /\ it > 0 /\ Base = g)

\* C9 - failed is distinct from untouched: a Convolution2d layer the walk has
\* met whose parameters are invalid for the compiled path is listed in a
\* failed subgraph of the returned result, in no untouched subgraph and in no
\* substitution.
InvalidReportedFailed ==
    \A g \in Range(subgraph.layers) :
        (Met(g) /\ layerOf[g].type = "Convolution2d" /\ layerOf[g].params = "invalid") =>
            /\ Returned
            /\ g \in Range(FailedLayers)
            /\ g \notin Range(UntouchedLayers)
            /\ g \notin Range(SubstitutedLayers)

\* the input slots connected when the call was entered, other than those of
\* the layers the substitutions remove
SurvivingInputSlots ==
    { s \in DOMAIN InitialConn(layerOf,
                               [k \in 1..Len(subgraph.outputSlots) |-> subgraph.outputSlots[k][1]]) :
        s[1] \notin { SubstitutedLayers[k] : k \in 1..applied } }

\* C10 - substitutions are positionally applicable: the two sides of every
\* emitted substitution have the same number of boundary input slots and of
\* boundary output slots, applying one never hits the slot-count mismatch,
\* and after applying it every input slot connected before is connected to an
\* output slot of a layer of the graph, the replacement's i-th input slot
\* taking the connection of the original's i-th.
PositionallyApplicable ==
    /\ \A k \in 1..Len(substitutions) : SlotCountsMatch(substitutions[k])
    /\ ~fatal
    /\ \A s \in SurvivingInputSlots : s \in DOMAIN conn /\ conn[s][1] \in graphLayers
    /\ \A k \in 1..applied :
         LET sub == substitutions[k]
         IN  \A i \in 1..Len(sub.substitutableSubgraph.inputSlots) :
                /\ sub.replacementSubgraph.inputSlots[i] \in DOMAIN conn
                /\ conn[sub.replacementSubgraph.inputSlots[i]][1] \in graphLayers

\* every substitution of a result with two substitutions has been applied,
\* the first replacement feeding the second and the second feeding the output
PositionallyApplicableWitness ==
    /\ Returned
    /\ applied = 2
    /\ Len(substitutions) = 2
    /\ \E s \in DOMAIN conn : s[1] = OutputGuid /\ conn[s][1] = preCompiled[1].guid
    /\ conn[<<preCompiled[1].guid, 0>>] = <<preCompiled[2].guid, 0>>

(* ---------------------------------------------------------------------- *)
(* CopyInFrom / CopyOutTo of ClImportTensorHandle, ClImportSubTensorHandle *)
(* ---------------------------------------------------------------------- *)

\* largest number of elements of the tensor of a typed copy
MaxElements == 1

\* largest number of copy calls made on one handle
MaxCopies == 2

\* the element types with a case label in the copy functions
CopyDataTypes ==
    {"F32", "U8", "QASYMM8", "QSYMM8_PER_CHANNEL", "QASYMM8_SIGNED",
     "F16", "S16", "QSYMM16", "S32"}

\* arm_compute::DataType: the types above and some without a case label
DataTypes == CopyDataTypes \cup {"QSYMM8", "U16", "U32"}

\* bytes of one element of a tensor of the type
ElementSize(dt) ==
    IF dt \in {"F32", "S32", "U32"} THEN 4
    ELSE IF dt \in {"F16", "S16", "QSYMM16", "U16"} THEN 2
    ELSE 1

\* sizeof of the host element types the copies cast the buffer to
SizeOf ==
    [float |-> 4, uint8_t |-> 1, int8_t |-> 1, Half |-> 2, int16_t |-> 2, int32_t |-> 4]

HandleClasses == {"ClImportTensorHandle", "ClImportSubTensorHandle"}

\* ClImportTensorHandle::CopyOutTo: the type `memory` is cast to, per case
\* label; "default" is the default label
ImportCopyOutToType(dt) ==
    CASE dt = "F32" -> "float"
      [] dt \in {"U8", "QASYMM8"} -> "uint8_t"
      [] dt \in {"QSYMM8_PER_CHANNEL", "QASYMM8_SIGNED"} -> "int8_t"
      [] dt = "F16" -> "Half"
      [] dt \in {"S16", "QSYMM16"} -> "int16_t"
      [] dt = "S32" -> "int32_t"
      [] OTHER -> "default"

\* ClImportTensorHandle::CopyInFrom: S16 shares the labels of the 8-bit types
ImportCopyInFromType(dt) ==
    CASE dt = "F32" -> "float"
      [] dt \in {"U8", "QASYMM8"} -> "uint8_t"
      [] dt = "F16" -> "Half"
      [] dt \in {"S16", "QSYMM8_PER_CHANNEL", "QASYMM8_SIGNED"} -> "int8_t"
      [] dt = "QSYMM16" -> "int16_t"
      [] dt = "S32" -> "int32_t"
      [] OTHER -> "default"

\* ClImportSubTensorHandle::CopyOutTo
SubCopyOutToType(dt) ==
    CASE dt = "F32" -> "float"
      [] dt \in {"U8", "QASYMM8"} -> "uint8_t"
      [] dt = "F16" -> "Half"
      [] dt \in {"QSYMM8_PER_CHANNEL", "QASYMM8_SIGNED"} -> "int8_t"
      [] dt \in {"S16", "QSYMM16"} -> "int16_t"
      [] dt = "S32" -> "int32_t"
      [] OTHER -> "default"

\* SubCopyInFromType with the F16 label missing
SubCopyInFromTypeWithoutHalf(dt) ==
    CASE dt = "F32" -> "float"
      [] dt \in {"U8", "QASYMM8"} -> "uint8_t"
      [] dt \in {"QSYMM8_PER_CHANNEL", "QASYMM8_SIGNED"} -> "int8_t"
      [] dt \in {"S16", "QSYMM16"} -> "int16_t"
      [] dt = "S32" -> "int32_t"
      [] OTHER -> "default"

\* ClImportSubTensorHandle::CopyInFrom
SubCopyInFromType(dt) ==
    CASE dt = "F32" -> "float"
      [] dt \in {"U8", "QASYMM8"} -> "uint8_t"
      [] dt = "F16" -> "Half"
      [] dt \in {"QSYMM8_PER_CHANNEL", "QASYMM8_SIGNED"} -> "int8_t"
      [] dt \in {"S16", "QSYMM16"} -> "int16_t"
      [] dt = "S32" -> "int32_t"
      [] OTHER -> "default"

\* the host element type CopyOutTo of the handle's class uses
CopyOutToType(h) ==
    IF h.class = "ClImportTensorHandle" THEN ImportCopyOutToType(h.dataType)
    ELSE SubCopyOutToType(h.dataType)

\* the host element type CopyInFrom of the handle's class uses
CopyInFromType(h) ==
    IF h.class = "ClImportTensorHandle" THEN ImportCopyInFromType(h.dataType)
    ELSE SubCopyInFromType(h.dataType)

\* n bytes that are all zero
Zeros(n) == [b \in 1..n |-> 0]

\* number of elements of a tensor of the bytes `t` and the type `dt`
NumElements(t, dt) == Len(t) \div ElementSize(dt)

\* CopyArmComputeITensorData with the host element type T on a tensor of one
\* row: the row is copied as (number of elements) * sizeof(T) bytes; the other
\* bytes of the destination keep their value
CopyArmComputeITensorData(src, dst, nbytes) ==
    [b \in 1..Len(dst) |-> IF b <= nbytes /\ b <= Len(src) THEN src[b] ELSE dst[b]]

\* a handle of either class over a zero-filled tensor, a host buffer of the
\* tensor's size to copy in from and a zero-filled one to copy out to
InitCopy ==
    /\ OptimizeIdle /\ HandleAbsent
    /\ LifeIdle /\ FactoryIdle /\ SlotsIdle /\ TimelineIdle
    /\ copyHandle \in [class : HandleClasses, dataType : DataTypes]
    /\ \E n \in 1..MaxElements :
         /\ tensorBytes = Zeros(n * ElementSize(copyHandle.dataType))
         /\ memoryIn \in [1..(n * ElementSize(copyHandle.dataType)) -> {1, 2}]
         /\ memoryOut = Zeros(n * ElementSize(copyHandle.dataType))
    /\ copyOp = <<>>
    /\ copyResult = "none"

\* CopyInFrom(memoryIn) on a type with a case label
CopyInFromCopies ==
    /\ Len(copyOp) < MaxCopies
    /\ CopyInFromType(copyHandle) # "default"
    /\ tensorBytes' =
         CopyArmComputeITensorData(memoryIn, tensorBytes,
            NumElements(tensorBytes, copyHandle.dataType) * SizeOf[CopyInFromType(copyHandle)])
    /\ copyOp' = Append(copyOp, "CopyInFrom")
    /\ copyResult' = "copied"
    /\ UNCHANGED <<copyHandle, memoryIn, memoryOut>>
    /\ UNCHANGED nonCopyVars

\* CopyInFrom(memoryIn) on any other type: UnimplementedException
CopyInFromUnimplemented ==
    /\ Len(copyOp) < MaxCopies
    /\ CopyInFromType(copyHandle) = "default"
    /\ copyOp' = Append(copyOp, "CopyInFrom")
    /\ copyResult' = "UnimplementedException"
    /\ UNCHANGED <<copyHandle, tensorBytes, memoryIn, memoryOut>>
    /\ UNCHANGED nonCopyVars

\* CopyOutTo(memoryOut) on a type with a case label
CopyOutToCopies ==
    /\ Len(copyOp) < MaxCopies
    /\ CopyOutToType(copyHandle) # "default"
    /\ memoryOut' =
         CopyArmComputeITensorData(tensorBytes, memoryOut,
            NumElements(tensorBytes, copyHandle.dataType) * SizeOf[CopyOutToType(copyHandle)])
    /\ copyOp' = Append(copyOp, "CopyOutTo")
    /\ copyResult' = "copied"
    /\ UNCHANGED <<copyHandle, tensorBytes, memoryIn>>
    /\ UNCHANGED nonCopyVars

\* CopyOutTo(memoryOut) on any other type: UnimplementedException
CopyOutToUnimplemented ==
    /\ Len(copyOp) < MaxCopies
    /\ CopyOutToType(copyHandle) = "default"
    /\ copyOp' = Append(copyOp, "CopyOutTo")
    /\ copyResult' = "UnimplementedException"
    /\ UNCHANGED <<copyHandle, tensorBytes, memoryIn, memoryOut>>
    /\ UNCHANGED nonCopyVars

NextCopy ==
    \/ CopyInFromCopies
    \/ CopyInFromUnimplemented
    \/ CopyOutToCopies
    \/ CopyOutToUnimplemented

SpecCopy == InitCopy /\ [][NextCopy]_vars

\* C11 - closed copy dispatch: a call of CopyInFrom or CopyOutTo of either
\* class copies exactly when the element type is one of F32, U8, QASYMM8,
\* QSYMM8_PER_CHANNEL, QASYMM8_SIGNED, F16, S16, QSYMM16, S32; for any other
\* type it ends with UnimplementedException and neither the tensor nor the
\* host buffer has been written.
ClosedCopyDispatch ==
    copyOp # <<>> =>
        /\ copyResult = "copied" <=> copyHandle.dataType \in CopyDataTypes
        /\ copyResult = "UnimplementedException" <=> copyHandle.dataType \notin CopyDataTypes
        /\ copyHandle.dataType \notin CopyDataTypes =>
              /\ tensorBytes = Zeros(Len(tensorBytes))
              /\ memoryOut = Zeros(Len(memoryOut))

\* CopyInFrom of the sub-tensor handle copied a 16-bit float tensor
ClosedCopyDispatchWitness ==
    /\ copyOp = <<"CopyInFrom">>
    /\ copyHandle = [class |-> "ClImportSubTensorHandle", dataType |-> "F16"]
    /\ copyResult = "copied"
    /\ tensorBytes = memoryIn

\* C12 - no widening or narrowing: for a type with a case label CopyInFrom
\* and CopyOutTo of the handle's class use the same host element type, of the
\* width of the tensor's element, and CopyInFrom(m) followed by CopyOutTo(m')
\* leaves m' equal to m.
TypedCopyRoundTrip ==
    (copyOp = <<"CopyInFrom", "CopyOutTo">> /\ copyHandle.dataType \in CopyDataTypes) =>
        /\ CopyInFromType(copyHandle) = CopyOutToType(copyHandle)
        /\ SizeOf[CopyInFromType(copyHandle)] = ElementSize(copyHandle.dataType)
        /\ memoryOut = memoryIn

(* ---------------------------------------------------------------------- *)
(* GpuFsaBackend: registering tensor handle factories                      *)
(* ---------------------------------------------------------------------- *)

\* largest number of factories registered with one registry
MaxFactories == 2

\* if (flags == static_cast<MemorySourceFlags>(MemorySource::Undefined))
\*     flags = static_cast<MemorySourceFlags>(MemorySource::Malloc);
NormalizeFlags(flags) ==
    IF flags = MemorySource.Undefined THEN MemorySource.Malloc ELSE flags

\* std::make_unique<GpuFsaTensorHandleFactory>(memoryManager): the factory is
\* constructed from the memory manager alone, no flags are handed to it
GpuFsaTensorHandleFactory ==
    [id |-> "GpuFsaTensorHandleFactory", memoryManager |-> "GpuFsaMemoryManager",
     flagsGiven |-> <<>>]

InitFactories ==
    /\ OptimizeIdle /\ HandleAbsent
    /\ CopyIdle /\ LifeIdle /\ SlotsIdle /\ TimelineIdle
    /\ FactoryIdle

\* what both functions do: the flags are normalized in the function's own
\* copies, then the factory is created and registered
Registered(fn, inputFlags, outputFlags) ==
    /\ Len(registry) < MaxFactories
    /\ flagsCall' = [fn |-> fn, inputFlags |-> inputFlags, outputFlags |-> outputFlags,
                     heldInput |-> NormalizeFlags(inputFlags),
                     heldOutput |-> NormalizeFlags(outputFlags)]
    /\ registry' = Append(registry, GpuFsaTensorHandleFactory)
    /\ UNCHANGED nonFactoryVars

\* RegisterTensorHandleFactories(registry, inputFlags, outputFlags)
RegisterTensorHandleFactories ==
    \E inputFlags \in MemorySourceFlags, outputFlags \in MemorySourceFlags :
        Registered("RegisterTensorHandleFactories", inputFlags, outputFlags)

\* CreateWorkloadFactory(registry, modelOptions, inputFlags, outputFlags)
CreateWorkloadFactory ==
    \E inputFlags \in MemorySourceFlags, outputFlags \in MemorySourceFlags :
        Registered("CreateWorkloadFactory", inputFlags, outputFlags)

\* the body of the two overloads that take no flags: the factory is created
\* from the memory manager and registered
RegisteredNoFlags ==
    /\ Len(registry) < MaxFactories
    /\ registry' = Append(registry, GpuFsaTensorHandleFactory)
    /\ UNCHANGED flagsCall
    /\ UNCHANGED nonFactoryVars

\* RegisterTensorHandleFactories(registry)
RegisterTensorHandleFactoriesNoFlags == RegisteredNoFlags

\* CreateWorkloadFactory(registry)
CreateWorkloadFactoryNoFlags == RegisteredNoFlags

NextFactories ==
    \/ RegisterTensorHandleFactories
    \/ CreateWorkloadFactory
    \/ RegisterTensorHandleFactoriesNoFlags
    \/ CreateWorkloadFactoryNoFlags

SpecFactories == InitFactories /\ [][NextFactories]_vars

\* C13 - Undefined is normalized away: the factory that a call with flags
\* creates and registers takes as its import flags the flags of the call with
\* Malloc in the place of Undefined, so it observes no Undefined and every
\* other value as it was given.
FactoryObservesNormalizedFlags ==
    flagsCall.fn # "none" =>
        \E k \in 1..Len(registry) :
            /\ registry[k].flagsGiven =
                  << (IF flagsCall.inputFlags = MemorySource.Undefined
                      THEN MemorySource.Malloc ELSE flagsCall.inputFlags),
                     (IF flagsCall.outputFlags = MemorySource.Undefined
                      THEN MemorySource.Malloc ELSE flagsCall.outputFlags) >>
            /\ \A i \in 1..Len(registry[k].flagsGiven) :
                  registry[k].flagsGiven[i] # MemorySource.Undefined

(* ---------------------------------------------------------------------- *)
(* ClImportSubTensorHandle: lifetime of the parent handle                  *)
(* ---------------------------------------------------------------------- *)

\* largest number of tensor handles ever created
MaxHandles == 4

\* the parent of a handle that has none (ITensorHandle* parentHandle = nullptr)
NoParent == 0

InitLife ==
    /\ OptimizeIdle /\ HandleAbsent
    /\ CopyIdle /\ FactoryIdle /\ SlotsIdle /\ TimelineIdle
    /\ LifeIdle

\* ClImportTensorHandle(tensorInfo, importFlags): a handle with no parent
CreateImportTensorHandle ==
    /\ Len(handles) < MaxHandles
    /\ handles' = Append(handles, [class |-> "ClImportTensorHandle", alive |-> TRUE,
                                   parentHandle |-> NoParent])
    /\ UNCHANGED nonLifeVars

\* ClImportSubTensorHandle(parent, shape, coords): m_Tensor is built on
\* parent->GetTensor() and parentHandle = parent, a plain pointer
CreateImportSubTensorHandle ==
    /\ Len(handles) < MaxHandles
    /\ \E parent \in 1..Len(handles) :
          /\ handles[parent].alive
          /\ handles' = Append(handles, [class |-> "ClImportSubTensorHandle",
                                         alive |-> TRUE, parentHandle |-> parent])
    /\ UNCHANGED nonLifeVars

\* the destructor of either class: nothing is checked, no handle is told
DestroyHandle ==
    /\ \E h \in 1..Len(handles) :
          /\ handles[h].alive
          /\ handles' = [handles EXCEPT ![h].alive = FALSE]
    /\ UNCHANGED nonLifeVars

NextLife ==
    \/ CreateImportTensorHandle
    \/ CreateImportSubTensorHandle
    \/ DestroyHandle

SpecLife == InitLife /\ [][NextLife]_vars

\* GetParent() of handle h: the stored pointer, whatever became of the parent
GetParent(h) == handles[h].parentHandle

\* C14 - parent outlives child: the parent that a live ClImportSubTensorHandle
\* returns from GetParent(), on whose tensor its own tensor is built, has not
\* been destroyed.
ParentOutlivesChild ==
    \A h \in 1..Len(handles) :
        (handles[h].alive /\ handles[h].class = "ClImportSubTensorHandle")
            => handles[GetParent(h)].alive

(* ---------------------------------------------------------------------- *)
(* CommonTestUtils: building a view from a list of layers                  *)
(* ---------------------------------------------------------------------- *)

\* how often the view is built from the same list of layers
MaxBuilds == 2

\* CreateInputsFrom with the later layers' slots put first
RECURSIVE CreateInputsFromLayersBackwards(_, _)
CreateInputsFromLayersBackwards(L, layers) ==
    IF layers = <<>> THEN <<>>
    ELSE LET g == Head(layers)
         IN  CreateInputsFromLayersBackwards(L, Tail(layers))
             \o [i \in 1..NumInputSlots(L[g]) |-> <<g, i - 1>>]

\* CreateInputsFrom(const std::vector<Layer*>& layers): for each layer in
\* the order given, each of its input slots from BeginInputSlots on
RECURSIVE CreateInputsFromLayers(_, _)
CreateInputsFromLayers(L, layers) ==
    IF layers = <<>> THEN <<>>
    ELSE LET g == Head(layers)
         IN  [i \in 1..NumInputSlots(L[g]) |-> <<g, i - 1>>]
             \o CreateInputsFromLayers(L, Tail(layers))

\* CreateOutputsFrom that keeps the output slots of the last layer only
CreateOutputsFromLayersLastOnly(L, layers) ==
    IF layers = <<>> THEN <<>>
    ELSE LET g == layers[Len(layers)]
         IN  [i \in 1..NumOutputSlots(L[g]) |-> <<g, i - 1>>]

\* CreateOutputsFrom(const std::vector<Layer*>& layers): for each layer in
\* the order given, each of its output slots from BeginOutputSlots on
RECURSIVE CreateOutputsFromLayers(_, _)
CreateOutputsFromLayers(L, layers) ==
    IF layers = <<>> THEN <<>>
    ELSE LET g == Head(layers)
         IN  [i \in 1..NumOutputSlots(L[g]) |-> <<g, i - 1>>]
             \o CreateOutputsFromLayers(L, Tail(layers))

\* CreateSubgraphViewFrom(CreateInputsFrom(layers), CreateOutputsFrom(layers), layers)
ViewFromLayers(L, layers) ==
    CreateSubgraphViewFrom(CreateInputsFromLayers(L, layers),
                           CreateOutputsFromLayers(L, layers), layers)

\* the lists of distinct layers that can be taken from the layers S
LayerLists(S) ==
    { q \in UNION { [1..k -> S] : k \in 0..Cardinality(S) } :
        \A a, b \in 1..Len(q) : a # b => q[a] # q[b] }

\* a connected graph whose layers differ in kind, bias and producer; the
\* helpers read neither the parameters nor the TensorInfo of a layer
InitSlots ==
    /\ \E n \in 0..MaxLayers :
        \E L \in [1..n -> LayerRecs] :
          \E outSet \in SUBSET (1..n) :
            /\ \A g \in 1..n : /\ L[g].producer \in {ExternalGuid, g - 1}
                               /\ L[g].params = "ok"
                               /\ L[g].info = "infoA"
            /\ layerOf = L
            /\ conn = InitialConn(L, Ascending(outSet))
            /\ graphLayers = (1..n) \cup {ExternalGuid, OutputGuid}
    /\ subgraph = CreateSubgraphViewFrom(<<>>, <<>>, <<>>)
    /\ pc = "idle" /\ it = 0 /\ untouched = {} /\ preCompiled = <<>>
    /\ substitutions = <<>> /\ untouchedSubgraphs = <<>> /\ failedSubgraphs = <<>>
    /\ applied = 0 /\ fatal = FALSE
    /\ HandleAbsent /\ CopyIdle /\ LifeIdle /\ FactoryIdle /\ TimelineIdle
    /\ SlotsIdle

\* the helpers are called on a list of layers of the graph
BuildView ==
    /\ ~builtView.built
    /\ \E layers \in LayerLists(DOMAIN layerOf) :
          /\ givenLayers' = layers
          /\ builtView' = [built |-> TRUE, calls |-> 1,
                           view |-> ViewFromLayers(layerOf, layers),
                           first |-> ViewFromLayers(layerOf, layers)]
    /\ UNCHANGED nonSlotVars

\* the helpers are called once more on the same list
BuildViewAgain ==
    /\ builtView.built
    /\ builtView.calls < MaxBuilds
    /\ builtView' = [builtView EXCEPT !.calls = @ + 1,
                                      !.view = ViewFromLayers(layerOf, givenLayers)]
    /\ UNCHANGED <<givenLayers, nonSlotVars>>

NextSlots ==
    \/ BuildView
    \/ BuildViewAgain

SpecSlots == InitSlots /\ [][NextSlots]_vars

\* the layers the view was built from
Members == Range(givenLayers)

\* every input slot of a member layer
MemberInputSlots ==
    { s \in (Members \X (0..2)) : s[2] < NumInputSlots(layerOf[s[1]]) }

\* every output slot of a member layer
MemberOutputSlots ==
    { s \in (Members \X {0}) : s[2] < NumOutputSlots(layerOf[s[1]]) }

\* the member input slots whose connected output slot is on a non-member layer
CrossingInputSlots == { s \in MemberInputSlots : conn[s][1] \notin Members }

\* the member output slots that feed an input slot of a non-member layer
CrossingOutputSlots ==
    { o \in MemberOutputSlots :
        \E t \in DOMAIN conn : conn[t] = o /\ t[1] \notin Members }

\* the slots of q follow the order of the given layers and, within one
\* layer, ascend by slot index; hence no slot is repeated
InGivenOrder(q) ==
    \A a, b \in 1..Len(q) :
        a < b => \/ IndexOf(givenLayers, q[a][1]) < IndexOf(givenLayers, q[b][1])
                 \/ (q[a][1] = q[b][1] /\ q[a][2] < q[b][2])

\* C15 - deterministic slot ordering: the input-slot list and the output-slot
\* list follow the order of the given layers and within a layer the slot
\* index, hold every slot of the given layers exactly once, and come out the
\* same when built again from the same layers.
SlotOrderDeterministic ==
    builtView.built =>
        /\ InGivenOrder(builtView.view.inputSlots)
        /\ InGivenOrder(builtView.view.outputSlots)
        /\ Range(builtView.view.inputSlots) = MemberInputSlots
        /\ Range(builtView.view.outputSlots) = MemberOutputSlots
        /\ Len(builtView.view.inputSlots) = Cardinality(MemberInputSlots)
        /\ Len(builtView.view.outputSlots) = Cardinality(MemberOutputSlots)
        /\ builtView.view = builtView.first

\* built twice from two layers given against their guid order, the first of
\* them a convolution with bias
SlotOrderDeterministicWitness ==
    /\ builtView.built
    /\ builtView.calls = 2
    /\ givenLayers = <<2, 1>>
    /\ NumInputSlots(layerOf[2]) = 3
    /\ builtView.view.inputSlots[3] = <<2, 2>>
    /\ builtView.view.inputSlots[4] = <<1, 0>>

\* C16 as stated - boundary slots are only the crossing slots: the view's
\* input slots are exactly the member input slots fed by a non-member layer
\* and its output slots exactly the member output slots feeding a non-member
\* layer.
BoundaryOnlyCrossing ==
    builtView.built =>
        /\ Range(builtView.view.inputSlots) = CrossingInputSlots
        /\ Range(builtView.view.outputSlots) = CrossingOutputSlots

\* C16 amended - the helpers list every input slot and every output slot of
\* the given layers: the crossing slots are among them, an input slot fed by
\* another given layer is listed too, and the lists are the crossing slots
\* exactly when no given layer feeds a given layer and every given layer's
\* output feeds a layer that was not given.
BoundaryAllMemberSlots ==
    builtView.built =>
        /\ Range(builtView.view.inputSlots) = MemberInputSlots
        /\ Range(builtView.view.outputSlots) = MemberOutputSlots
        /\ CrossingInputSlots \subseteq Range(builtView.view.inputSlots)
        /\ CrossingOutputSlots \subseteq Range(builtView.view.outputSlots)
        /\ (Range(builtView.view.inputSlots) = CrossingInputSlots
              <=> \A s \in MemberInputSlots : conn[s][1] \notin Members)
        /\ (Range(builtView.view.outputSlots) = CrossingOutputSlots
              <=> \A g \in Members :
                    \E t \in DOMAIN conn : conn[t] = <<g, 0>> /\ t[1] \notin Members)

\* a view of two layers, the second fed by the first: the fed input slot is
\* listed although it does not cross the boundary
BoundaryAllMemberSlotsWitness ==
    /\ builtView.built
    /\ givenLayers = <<1, 2>>
    /\ conn[<<2, 0>>] = <<1, 0>>
    /\ <<2, 0>> \in Range(builtView.view.inputSlots)
    /\ <<2, 0>> \notin CrossingInputSlots

(* ---------------------------------------------------------------------- *)
(* OptimizeSubgraphView: the indices of the copy loop                      *)
(* ---------------------------------------------------------------------- *)

\* the walk stands at a Convolution2d layer, about to add the pre-compiled
\* layer and run the copy loop
AtCopyLoop == pc = "walk" /\ it > 0 /\ IsHandled(layerOf[Base])

\* C17 - output-slot index stays in range: whenever the walk is about to copy
\* output TensorInfo for a layer, every index of the loop is below the number
\* of output slots of that layer and of its pre-compiled layer; and no
\* pre-compiled layer has an output slot left without TensorInfo.
CopyIndexInRange ==
    /\ AtCopyLoop =>
          \A i \in CopyIndices(subgraph) :
              /\ i < NumOutputSlots(layerOf[Base])
              /\ i < PreCompiledDescriptor(layerOf[Base]).numOutputSlots
    /\ \A k \in 1..Len(preCompiled) :
          \A j \in 1..preCompiled[k].numOutputSlots :
              preCompiled[k].outInfo[j] # Unset

(* ---------------------------------------------------------------------- *)
(* ActivateTimelineReportingCommandHandler::operator()                     *)
(* ---------------------------------------------------------------------- *)

\* how many packets the handler is invoked with
MaxCalls == 3

ProfilingStates == {"Uninitialised", "NotConnected", "WaitingForAck", "Active"}

\* packet families and ids the handler is invoked with; (0, 6) is the
\* activate-timeline-reporting packet
PacketFamilies == {0, 1}
PacketIds == {5, 6}

\* Dispatch with the state examined before the report structure
DispatchStateFirst(hasReportStructure, state, family, id, reporting) ==
    IF state \in {"Uninitialised", "NotConnected", "WaitingForAck"}
    THEN "RuntimeException:WrongState"
    ELSE IF ~hasReportStructure THEN "Exception:ReportStructure"
    ELSE IF ~(family = 0 /\ id = 6) THEN "Exception:WrongPacket"
    ELSE IF ~reporting THEN "activate"
    ELSE "returned"

\* the path operator() takes: the has_value() test, then the switch on the
\* state, then the packet test, then the test of m_TimelineReporting
Dispatch(hasReportStructure, state, family, id, reporting) ==
    IF ~hasReportStructure THEN "Exception:ReportStructure"
    ELSE IF state \in {"Uninitialised", "NotConnected", "WaitingForAck"}
    THEN "RuntimeException:WrongState"
    ELSE IF ~(family = 0 /\ id = 6) THEN "Exception:WrongPacket"
    ELSE IF ~reporting THEN "activate"
    ELSE "returned"

\* ActivationSteps with the flag set before anything is sent
ActivationStepsFlagFirst == <<"flag", "directory", "labels", "create", "report", "notify">>

\* the statements of the `if(!m_TimelineReporting)` block in order:
\* SendTimelineMessageDirectoryPackage, SendWellKnownLabelsAndEventClasses,
\* m_TimelineReporting = true, CreateProfilingService, ReportStructure,
\* NotifyBackendsForTimelineReporting
ActivationSteps == <<"directory", "labels", "flag", "create", "report", "notify">>

\* what the steps q leave in the log: the packets sent, the setting of the
\* flag, the report and the notification; creating the profiling service
\* that is handed to ReportStructure sends and notifies nothing
Logged(q) == SelectSeq(q, LAMBDA s : s # "create")

\* what a run of the block leaves in the log: all of it when every call
\* returns, or the part up to a call that throws
ActivationRuns ==
    { [done |-> Logged(SubSeq(ActivationSteps, 1, k)),
       result |-> IF k = Len(ActivationSteps) THEN r ELSE "threw"] :
         k \in { j \in 1..Len(ActivationSteps) : ActivationSteps[j] # "flag" },
         r \in {"returned", "threw"} }

\* a profiling service constructed with or without an IReportStructure
InitTimeline ==
    /\ OptimizeIdle /\ HandleAbsent
    /\ CopyIdle /\ LifeIdle /\ FactoryIdle /\ SlotsIdle
    /\ currentState = "Uninitialised"
    /\ m_ReportStructure \in BOOLEAN
    /\ m_TimelineReporting = FALSE
    /\ timelineLog = <<>>
    /\ handlerResult = "none"
    /\ handlerCall = NoHandlerCall

\* the record of the invocation with packet (family, id)
Invoked(family, id) ==
    [calls |-> handlerCall.calls + 1, family |-> family, id |-> id,
     state |-> currentState, reporting |-> m_TimelineReporting, log |-> timelineLog]

\* operator() on a path that throws before the block or finds the flag set
Handled(path) ==
    /\ handlerCall.calls < MaxCalls
    /\ \E family \in PacketFamilies, id \in PacketIds :
          /\ Dispatch(m_ReportStructure, currentState, family, id, m_TimelineReporting) = path
          /\ handlerCall' = Invoked(family, id)
    /\ handlerResult' = path
    /\ UNCHANGED <<currentState, m_ReportStructure, m_TimelineReporting, timelineLog>>
    /\ UNCHANGED nonTimelineVars

\* if (!m_ReportStructure.has_value()) throw armnn::Exception
ThrowNoReportStructure == Handled("Exception:ReportStructure")

\* case Uninitialised / NotConnected / WaitingForAck: throw armnn::RuntimeException
ThrowWrongState == Handled("RuntimeException:WrongState")

\* case Active with a packet other than (0, 6): throw armnn::Exception
ThrowWrongPacket == Handled("Exception:WrongPacket")

\* case Active, packet (0, 6), m_TimelineReporting already true: break
AlreadyReporting == Handled("returned")

\* case Active, packet (0, 6), m_TimelineReporting false: the block runs
Activate ==
    /\ handlerCall.calls < MaxCalls
    /\ \E family \in PacketFamilies, id \in PacketIds :
          /\ Dispatch(m_ReportStructure, currentState, family, id, m_TimelineReporting)
               = "activate"
          /\ handlerCall' = Invoked(family, id)
    /\ \E run \in ActivationRuns :
          /\ timelineLog' = timelineLog \o run.done
          /\ m_TimelineReporting' = (\E j \in 1..Len(run.done) : run.done[j] = "flag")
          /\ handlerResult' = run.result
    /\ UNCHANGED <<currentState, m_ReportStructure>>
    /\ UNCHANGED nonTimelineVars

\* the profiling state machine moves to another state between two packets
TransitionToState ==
    /\ \E s \in ProfilingStates \ {currentState} : currentState' = s
    /\ UNCHANGED <<m_ReportStructure, m_TimelineReporting, timelineLog,
                   handlerResult, handlerCall>>
    /\ UNCHANGED nonTimelineVars

NextTimeline ==
    \/ ThrowNoReportStructure
    \/ ThrowWrongState
    \/ ThrowWrongPacket
    \/ AlreadyReporting
    \/ Activate
    \/ TransitionToState

SpecTimeline == InitTimeline /\ [][NextTimeline]_vars

\* the last invocation found no report structure, a state other than Active,
\* or in Active a packet other than (0, 6)
Rejecting ==
    /\ handlerCall.calls > 0
    /\ \/ ~m_ReportStructure
       \/ handlerCall.state # "Active"
       \/ <<handlerCall.family, handlerCall.id>> # <<0, 6>>

\* C18 - rejection without side effects: an invocation without report
\* structure, or in state Uninitialised, NotConnected or WaitingForAck, or in
\* Active with a packet other than (0, 6), throws, adds nothing to what was
\* sent or notified and leaves the timeline-reporting flag as it found it; a
\* missing report structure is what is thrown for in every state.
RejectsWithoutSideEffects ==
    Rejecting =>
        /\ handlerResult \in {"Exception:ReportStructure", "RuntimeException:WrongState",
                              "Exception:WrongPacket"}
        /\ timelineLog = handlerCall.log
        /\ m_TimelineReporting = handlerCall.reporting
        /\ ~m_ReportStructure <=> handlerResult = "Exception:ReportStructure"
        /\ (m_ReportStructure /\ handlerCall.state # "Active")
              => handlerResult = "RuntimeException:WrongState"
        /\ (m_ReportStructure /\ handlerCall.state = "Active")
              => handlerResult = "Exception:WrongPacket"

\* a valid activate packet arrives without report structure in a state the
\* switch would throw for as well
RejectsWithoutSideEffectsWitness ==
    /\ handlerCall.calls = 2
    /\ ~m_ReportStructure
    /\ handlerCall.state = "WaitingForAck"
    /\ <<handlerCall.family, handlerCall.id>> = <<0, 6>>
    /\ handlerResult = "Exception:ReportStructure"

\* the log ends with one run of the block that reached the setting of the flag
EndsWithActivation(log) ==
    \E k \in 1..(Len(log) - 2) :
        /\ SubSeq(log, k, k + 2) = <<"directory", "labels", "flag">>
        /\ SubSeq(log, k + 3, Len(log)) \in {<<>>, <<"report">>, <<"report", "notify">>}

\* C19 - activation happens at most once and in a fixed order: the flag never
\* goes back to false; the step that sets it sends the directory package, the
\* labels and event classes, sets the flag, reports the structure and
\* notifies the backends, in that order and as far as the calls return; while
\* the flag is true nothing more is sent or notified; so the flag being true
\* implies that the directory package was sent.
ActivatesOnceInOrder ==
    /\ [][m_TimelineReporting => (m_TimelineReporting' /\ timelineLog' = timelineLog)]_vars
    /\ [][(~m_TimelineReporting /\ m_TimelineReporting') =>
            \E tail \in {<<>>, <<"report">>, <<"report", "notify">>} :
                timelineLog' = timelineLog \o <<"directory", "labels", "flag">> \o tail]_vars
    /\ [](m_TimelineReporting =>
            /\ EndsWithActivation(timelineLog)
            /\ Cardinality({k \in 1..Len(timelineLog) : timelineLog[k] = "flag"}) = 1
            /\ \E k \in 1..Len(timelineLog) : timelineLog[k] = "directory")
    /\ [](~m_TimelineReporting => \A k \in 1..Len(timelineLog) : timelineLog[k] # "flag")

\* the flag is true and a later valid activate packet has returned, yet the
\* backends were never notified: reporting the structure threw
ActivatesOnceInOrderWitness ==
    /\ m_TimelineReporting
    /\ handlerCall.reporting
    /\ handlerCall.state = "Active"
    /\ <<handlerCall.family, handlerCall.id>> = <<0, 6>>
    /\ handlerResult = "returned"
    /\ timelineLog = <<"directory", "labels", "flag", "report">>

====
